---------------------------- MODULE Spec2Model ----------------------------
(***************************************************************************)
(* A model of build.py, the one-page static-site generator: the theme,    *)
(* SEO and data embedders and the main pipeline around them.              *)
(*                                                                         *)
(* Text is a sequence of tokens.  A token is an indivisible piece of the  *)
(* text: a character ("{", "}", "_", a backslash, a double quote), a run  *)
(* of blanks the code writes as a unit, or a word no operation of the     *)
(* program looks into.  Every search and replacement of the program works *)
(* on whole tokens of this alphabet, so the token-level operation is the  *)
(* character-level one.                                                    *)
(***************************************************************************)
EXTENDS Integers, Sequences, FiniteSets, TLC

(***************************************************************************)
(* Bounds of the model.                                                    *)
(***************************************************************************)
MaxEntries == 2
MaxRegions == 2
MaxTextLen == 3

(***************************************************************************)
(* Tokens.                                                                 *)
(***************************************************************************)
NL == "\n"
SP == " "
I8 == "        "
I12 == "            "
BSL == "\\"
QUOTE == "\""

IsWs(t) == t \in {NL, SP, I8, I12, "\t"}

(***************************************************************************)
(* Generic text helpers (str.join, str.replace, str.find).                 *)
(***************************************************************************)
RECURSIVE FlatRange(_, _, _)
\* The concatenation of parts[lo], ..., parts[hi].
FlatRange(parts, lo, hi) ==
    IF lo > hi THEN <<>>
    ELSE IF lo = hi THEN parts[lo]
    ELSE LET mid == (lo + hi) \div 2
         IN  FlatRange(parts, lo, mid) \o FlatRange(parts, mid + 1, hi)

Flat(parts) == FlatRange(parts, 1, Len(parts))

\* sep.join(lines)
Join(lines, sep) ==
    Flat([i \in 1..Len(lines) |-> IF i = 1 THEN lines[i] ELSE sep \o lines[i]])

StartsAt(s, i, old) ==
    /\ i + Len(old) - 1 <= Len(s)
    /\ \A k \in 1..Len(old) : s[i + k - 1] = old[k]

RECURSIVE Taken(_, _, _)
\* Whether str.replace takes the occurrence of old at position i: the scan
\* goes left to right and an occurrence inside one already taken is skipped.
Taken(s, old, i) ==
    /\ StartsAt(s, i, old)
    /\ \A j \in (i - Len(old) + 1)..(i - 1) : j < 1 \/ ~Taken(s, old, j)

\* str.replace(old, new): every non-overlapping occurrence, left to right.
Replace(s, old, new) ==
    Flat([i \in 1..Len(s) |->
            IF Taken(s, old, i) THEN new
            ELSE IF \E j \in (i - Len(old) + 1)..(i - 1) : j >= 1 /\ Taken(s, old, j)
                 THEN <<>>
                 ELSE <<s[i]>>])

Contains(s, old) == \E i \in 1..Len(s) : StartsAt(s, i, old)

Count(s, tok) == Cardinality({i \in 1..Len(s) : s[i] = tok})


(***************************************************************************)
(* Theme documents.  A mapping is the sequence of its entries in insertion *)
(* order (a Python dict); a section that the document does not have is     *)
(* present = FALSE; the document None (an empty file) is none = TRUE.      *)
(***************************************************************************)
Entry(k, v) == [k |-> k, v |-> v]
Absent == [present |-> FALSE, items |-> <<>>]
Section(items) == [present |-> TRUE, items |-> items]

\* `not theme_config`: None or the empty mapping.
Falsy(theme) ==
    \/ theme.none
    \/ /\ ~theme.light.present
       /\ ~theme.dark.present
       /\ ~theme.scrollbar.present
       /\ ~theme.decorative_light.present
       /\ ~theme.decorative_dark.present
       /\ ~theme.logo_gradients.present

\* key.replace('_', '-')
Hyphenate(key) == Replace(key, <<"_">>, <<"-">>)

\* f"            --{css_var_name}: {value};"
Declaration(prefix, e) ==
    <<I12, "--">> \o prefix \o Hyphenate(e.k) \o <<":", SP>> \o e.v \o <<";">>

Declarations(prefix, items) == [i \in 1..Len(items) |-> Declaration(prefix, items[i])]

\* "\n        }", the text the code looks for as the end of a block.
Closing == <<NL, I8, "}">>

\* "        :root {\n" + "\n".join(light_vars) + "\n        }"
RootBlock(items) ==
    <<I8, ":root", SP, "{", NL>> \o Join(Declarations(<<>>, items), <<NL>>) \o Closing

\* "\n\n        .dark {\n" + "\n".join(dark_vars) + "\n        }"
DarkBlock(items) ==
    <<NL, NL, I8, ".dark", SP, "{", NL>> \o Join(Declarations(<<>>, items), <<NL>>) \o Closing

\* css_vars[idx] = css_vars[idx].replace("\n        }", "\n" + "\n".join(vars) + "\n        }")
\* under `if <section> in theme_config` and `if vars:`; raises IndexError
\* when the list has no such element (idx counts from 1 here).
InsertInto(st, idx, section, prefix) ==
    IF st.err # "none" \/ ~section.present \/ section.items = <<>> THEN st
    ELSE IF Len(st.css_vars) < idx THEN [st EXCEPT !.err = "IndexError"]
    ELSE [st EXCEPT !.css_vars[idx] =
            Replace(@, Closing,
                    <<NL>> \o Join(Declarations(prefix, section.items), <<NL>>) \o Closing)]

\* The guard of the decorative_dark step: 'decorative_dark' in theme_config
\* and len(css_vars) > 1.
DarkInsertGuard(theme, st) == theme.decorative_dark.present /\ Len(st.css_vars) > 1

\* generate_css_variables(theme_config): [err, text].
generate_css_variables(theme) ==
    IF Falsy(theme) THEN [err |-> "none", text |-> <<>>]
    ELSE
      LET s0 == [err |-> "none", css_vars |-> <<>>]
          s1 == IF theme.light.present
                THEN [s0 EXCEPT !.css_vars = Append(@, RootBlock(theme.light.items))]
                ELSE s0
          s2 == IF theme.dark.present
                THEN [s1 EXCEPT !.css_vars = Append(@, DarkBlock(theme.dark.items))]
                ELSE s1
          s3 == InsertInto(s2, 1, theme.scrollbar, <<"scrollbar", "-">>)
          s4 == InsertInto(s3, 1, theme.decorative_light, <<"decorative", "-">>)
          s5 == IF s4.err = "none" /\ DarkInsertGuard(theme, s4)
                THEN InsertInto(s4, 2, theme.decorative_dark, <<"decorative", "-">>)
                ELSE s4
          s6 == InsertInto(s5, 1, theme.logo_gradients, <<"logo", "-">>)
      IN  [err |-> s6.err,
           text |-> IF s6.err = "none" THEN Join(s6.css_vars, <<NL>>) ELSE <<>>]

(***************************************************************************)
(* The pattern  :root\s*\{[^}]+\}\s*\.dark\s*\{[^}]+\}  on tokens.  No token *)
(* but "}" holds a closing brace inside a style block.                     *)
(***************************************************************************)
\* The least position in found, Len(s) + 1 if there is none.
Least(s, found) ==
    IF found = {} THEN Len(s) + 1
    ELSE CHOOSE k \in found : \A m \in found : k <= m

\* \s* from position i: the first position that is not white space.
SkipWs(s, i) == Least(s, {k \in i..Len(s) : ~IsWs(s[k])})

\* The position of the first "}" at or after i, Len(s) + 1 if none.
NextBrace(s, i) == Least(s, {k \in i..Len(s) : s[k] = "}"})

\* \{[^}]+\} from position i: the position after the match, 0 if none.
MatchBlock(s, i) ==
    IF i > Len(s) \/ s[i] # "{" THEN 0
    ELSE LET k == NextBrace(s, i + 1)
         IN  IF k > Len(s) \/ k = i + 1 THEN 0 ELSE k + 1

\* The whole pattern from position i: the position after the match, 0 if none.
MatchRegion(s, i) ==
    IF i > Len(s) \/ s[i] # ":root" THEN 0
    ELSE LET a == MatchBlock(s, SkipWs(s, i + 1))
         IN  IF a = 0 THEN 0
             ELSE LET d == SkipWs(s, a)
                  IN  IF d > Len(s) \/ s[d] # ".dark" THEN 0
                      ELSE MatchBlock(s, SkipWs(s, d + 1))

\* re.search(pattern, template)
Search(s) == \E i \in 1..Len(s) : MatchRegion(s, i) # 0

(***************************************************************************)
(* re.sub's replacement template: a backslash in the replacement text is   *)
(* an escape.  \\ is a backslash, \n a newline, \g<0> the matched text; a  *)
(* backslash before another ASCII letter or before a digit is an error     *)
(* (bad escape, invalid group reference: the pattern has no group); before *)
(* anything else it stays.                                                 *)
(***************************************************************************)
Letters == {"x", "n"}
Digits == {"1"}

\* Whether the backslash at position i starts an escape: it is not itself
\* the second character of one (the backslashes before it pair up).
StartsEscape(r, i) ==
    /\ r[i] = BSL
    /\ LET others == {k \in 1..(i - 1) : r[k] # BSL}
           last == IF others = {} THEN 0
                   ELSE CHOOSE k \in others : \A m \in others : m <= k
       IN  (i - 1 - last) % 2 = 0

\* re.error: the replacement ends in an escape's backslash, or has a bad
\* escape or a reference to a group the pattern has not.
BadTemplate(r) ==
    \E i \in 1..Len(r) :
       /\ StartsEscape(r, i)
       /\ \/ i = Len(r)
          \/ r[i + 1] \in (Letters \cup Digits) \ {"n"}

\* The replacement text with its escapes expanded, for one match.
Expand(r, matched) ==
    Flat([i \in 1..Len(r) |->
            IF i > 1 /\ StartsEscape(r, i - 1)
            THEN CASE r[i] = BSL -> <<BSL>>
                   [] r[i] = "n" -> <<NL>>
                   [] r[i] = "g<0>" -> matched
                   [] OTHER -> <<r[i]>>
            ELSE IF StartsEscape(r, i)
                 THEN IF i < Len(r) /\ r[i + 1] \in {BSL, "n", "g<0>"} THEN <<>> ELSE <<BSL>>
                 ELSE <<r[i]>>])

\* The positions where the pattern matches.
MatchStarts(s) == {i \in 1..Len(s) : MatchRegion(s, i) # 0}

RECURSIVE Matched(_, _, _)
\* Whether re.sub takes the match that starts at position i: the scan goes
\* left to right and goes on after the end of a match it has taken.
Matched(s, starts, i) ==
    /\ i \in starts
    /\ \A j \in starts : (j < i /\ MatchRegion(s, j) > i) => ~Matched(s, starts, j)

\* The text with the matches that start at the positions taken replaced.
Substitute(s, taken, repl) ==
    LET inside == UNION {(i + 1)..(MatchRegion(s, i) - 1) : i \in taken}
    IN  Flat([i \in 1..Len(s) |->
                IF i \in taken THEN Expand(repl, SubSeq(s, i, MatchRegion(s, i) - 1))
                ELSE IF i \in inside THEN <<>>
                ELSE <<s[i]>>])

\* re.sub with count=1: the first match only.
SubOnce(s, repl) ==
    LET starts == MatchStarts(s)
    IN  Substitute(s, {i \in starts : \A j \in starts : i <= j}, repl)

\* re.sub(pattern, css_variables, template): every match is replaced.
Sub(s, repl) ==
    LET starts == MatchStarts(s)
    IN  Substitute(s, {i \in starts : Matched(s, starts, i)}, repl)

\* Lines 116-117: [err, text].
Splice(template, css_variables) ==
    IF ~Search(template) THEN [err |-> "none", text |-> template]
    ELSE IF BadTemplate(css_variables) THEN [err |-> "re.error", text |-> <<>>]
    ELSE [err |-> "none", text |-> Sub(template, css_variables)]

\* The two literal colour declarations of the scrollbar thumb and the
\* references that replace them.
LitThumb == "background: #313847;"
LitHover == "background: #3f4759;"
VarThumb == "background: var(--scrollbar-thumb);"
VarHover == "background: var(--scrollbar-thumb-hover);"
KeyThumb == <<"thumb">>
KeyHover == <<"thumb", "_", "hover">>

HasKey(section, key) == \E i \in 1..Len(section.items) : section.items[i].k = key

\* Both literals replaced whenever the theme has a scrollbar section, whatever
\* its keys.
ScrollbarColorsAnyKey(template, theme) ==
    IF ~theme.scrollbar.present THEN template
    ELSE Replace(Replace(template, <<LitThumb>>, <<VarThumb>>), <<LitHover>>, <<VarHover>>)

\* Lines 120-125.
ScrollbarColors(template, theme) ==
    IF ~theme.scrollbar.present THEN template
    ELSE LET t1 == IF HasKey(theme.scrollbar, KeyThumb)
                   THEN Replace(template, <<LitThumb>>, <<VarThumb>>)
                   ELSE template
         IN  IF HasKey(theme.scrollbar, KeyHover)
             THEN Replace(t1, <<LitHover>>, <<VarHover>>)
             ELSE t1

\* embed_theme(template, theme_config): [err, text].
embed_theme(template, theme) ==
    IF Falsy(theme) THEN [err |-> "none", text |-> template]
    ELSE LET css == generate_css_variables(theme)
         IN  IF css.err # "none" THEN [err |-> css.err, text |-> <<>>]
             ELSE LET sp == Splice(template, css.text)
                  IN  IF sp.err # "none" THEN sp
                      ELSE [err |-> "none", text |-> ScrollbarColors(sp.text, theme)]


(***************************************************************************)
(* State.  pc is the position in the code; template is the pipeline's one  *)
(* template string, template0 the text it started from; error is the       *)
(* exception that ended a call.                                            *)
(***************************************************************************)
VARIABLES pc, error, theme_config, template, template0, css_variables,
          cv_data, html_content, cv_file, template_file, theme_file,
          output_file, writable, exit_status, writes, called

vars == <<pc, error, theme_config, template, template0, css_variables,
          cv_data, html_content, cv_file, template_file, theme_file,
          output_file, writable, exit_status, writes, called>>

(***************************************************************************)
(* Inputs of the theme embedder.                                           *)
(***************************************************************************)
LightKey(i) ==
    CASE i = 1 -> <<"bg">>
      [] i = 2 -> <<"text", "_", "muted">>
      [] OTHER -> <<"a", "_", "b", "_", ToString(i)>>

DarkKey(i) == IF i = 1 THEN <<"bg">> ELSE <<"card", "_", ToString(i)>>

\* Style values: a colour, and values with a backslash in them.
Values == {<<"#fff">>, <<BSL, "n">>, <<BSL, "x">>, <<BSL, "g<0>">>}

\* The last entry's value is v, the others are colours.
LightItems(n, v) ==
    [i \in 1..n |-> Entry(LightKey(i), IF i = n THEN v ELSE <<"#eee">>)]

DarkItems(n) == [i \in 1..n |-> Entry(DarkKey(i), <<"#111">>)]

LightOptions ==
    {Absent} \cup {Section(LightItems(n, <<"#fff">>)) : n \in 0..MaxEntries}
             \cup {Section(LightItems(1, v)) : v \in Values}

DarkOptions == {Absent, Section(DarkItems(0)), Section(DarkItems(1))}

Thumb == Entry(KeyThumb, <<"#112233">>)
Hover == Entry(KeyHover, <<"#445566">>)

ScrollbarOptions ==
    {Absent, Section(<<>>), Section(<<Thumb>>), Section(<<Hover>>),
     Section(<<Thumb, Hover>>)}

DecorativeLightOptions == {Absent, Section(<<Entry(<<"blob", "_", "one">>, <<"#abc">>)>>)}

DecorativeDarkOptions == {Absent, Section(<<Entry(<<"glow", "_", "one">>, <<"#def">>)>>)}

LogoOptions == {Absent, Section(<<Entry(<<"start">>, <<"#123">>)>>)}

NoneTheme ==
    [none |-> TRUE, light |-> Absent, dark |-> Absent, scrollbar |-> Absent,
     decorative_light |-> Absent, decorative_dark |-> Absent,
     logo_gradients |-> Absent]

Themes ==
    {NoneTheme} \cup
    [none : {FALSE}, light : LightOptions, dark : DarkOptions,
     scrollbar : ScrollbarOptions, decorative_light : DecorativeLightOptions,
     decorative_dark : DecorativeDarkOptions, logo_gradients : LogoOptions]

\* The i-th style region of a template: a root-scope block immediately
\* followed by a dark-mode block, with and without white space.
Region(i) ==
    IF i % 2 = 1
    THEN <<":root", SP, "{", NL, "--old", ToString(i), ";", NL, "}", NL, NL,
           ".dark", SP, "{", "--old-dark", ToString(i), ";", "}">>
    ELSE <<":root", "{", "--old", ToString(i), ";", "}",
           ".dark", "{", "--old-dark", ToString(i), ";", "}">>

\* What stands around the regions: plain text, the scrollbar literals, and
\* texts that look like a region and are none.
Filler(variant) ==
    CASE variant = "literals" -> <<LitThumb, "a", LitHover, LitThumb>>
      [] variant = "apart" ->
           <<":root", "{", "a", "}", "b", ".dark", "{", "c", "}", LitThumb>>
      [] OTHER ->
           <<".dark", "{", "c", "}", ":root", SP, "{", "}", SP, ".dark", "{", "c", "}",
             LitHover>>

Variants == {"literals", "apart", "empty"}

RECURSIVE Regions(_, _, _)
Regions(i, n, variant) ==
    IF i > n THEN <<>>
    ELSE Region(i) \o Filler(variant) \o Regions(i + 1, n, variant)

StyleTemplate(n, variant) == <<"<style>">> \o Filler(variant) \o Regions(1, n, variant)

StyleTemplates == {StyleTemplate(n, v) : n \in 0..MaxRegions, v \in Variants}

(***************************************************************************)
(* embed_theme, step by step.                                              *)
(***************************************************************************)
NoDoc == [t |-> "null", s |-> <<>>, n |-> 0, items |-> <<>>]

Idle ==
    /\ error = "none"
    /\ css_variables = <<>>
    /\ html_content = <<>>
    /\ cv_file = [state |-> "missing", doc |-> NoDoc]
    /\ template_file = [state |-> "missing", text |-> <<>>]
    /\ theme_file = [state |-> "missing", doc |-> NoneTheme]
    /\ output_file = [exists |-> FALSE, text |-> <<>>]
    /\ writable = "yes"
    /\ exit_status = -1
    /\ writes = 0
    /\ called = {}

ThemeInit ==
    /\ pc = "embed_theme"
    /\ theme_config \in Themes
    /\ template0 \in StyleTemplates
    /\ template = template0
    /\ cv_data = NoDoc
    /\ Idle

\* Lines 103-104: no theme document, the template comes back as it is.
embed_theme_none ==
    /\ pc = "embed_theme"
    /\ Falsy(theme_config)
    /\ pc' = "theme_returned"
    /\ UNCHANGED <<error, theme_config, template, template0, css_variables,
                   cv_data, html_content, cv_file, template_file, theme_file,
                   output_file, writable, exit_status, writes, called>>

\* Line 107.
embed_theme_generate ==
    /\ pc = "embed_theme"
    /\ ~Falsy(theme_config)
    /\ LET css == generate_css_variables(theme_config)
       IN  /\ error' = css.err
           /\ css_variables' = css.text
           /\ pc' = IF css.err = "none" THEN "theme_generated" ELSE "theme_raised"
    /\ UNCHANGED <<theme_config, template, template0, cv_data, html_content,
                   cv_file, template_file, theme_file, output_file, writable,
                   exit_status, writes, called>>

\* Lines 114-117.
embed_theme_splice ==
    /\ pc = "theme_generated"
    /\ LET sp == Splice(template, css_variables)
       IN  /\ error' = sp.err
           /\ template' = IF sp.err = "none" THEN sp.text ELSE template
           /\ pc' = IF sp.err = "none" THEN "theme_spliced" ELSE "theme_raised"
    /\ UNCHANGED <<theme_config, template0, css_variables, cv_data, html_content,
                   cv_file, template_file, theme_file, output_file, writable,
                   exit_status, writes, called>>

\* Lines 120-127.
embed_theme_scrollbar ==
    /\ pc = "theme_spliced"
    /\ template' = ScrollbarColors(template, theme_config)
    /\ pc' = "theme_returned"
    /\ UNCHANGED <<error, theme_config, template0, css_variables, cv_data,
                   html_content, cv_file, template_file, theme_file, output_file,
                   writable, exit_status, writes, called>>

ThemeNext ==
    \/ embed_theme_none
    \/ embed_theme_generate
    \/ embed_theme_splice
    \/ embed_theme_scrollbar

ThemeSpec == ThemeInit /\ [][ThemeNext]_vars


(***************************************************************************)
(* Reading a text back: what the claims about the theme embedder say of    *)
(* its result, stated without the operators that build it.                 *)
(***************************************************************************)
\* The position of the first token tok at or after i, Len(s) + 1 if none.
NextToken(s, i, tok) == Least(s, {k \in i..Len(s) : s[k] = tok})

RECURSIVE NamesIn(_, _, _)
\* The names declared ("--name: value;") from position j up to stop.
NamesIn(s, j, stop) ==
    LET d == NextToken(s, j, "--")
    IN  IF d >= stop THEN <<>>
        ELSE LET k == NextToken(s, d, ":")
             IN  <<SubSeq(s, d + 1, k - 1)>> \o NamesIn(s, k + 1, stop)

\* The names declared in the block whose selector stands at position i.
BlockNames(s, i) == NamesIn(s, i, NextToken(s, i, "}"))

\* A key with every underscore written as a hyphen.
Hyphenated(key) == [j \in 1..Len(key) |-> IF key[j] = "_" THEN "-" ELSE key[j]]

Named(prefix, section) ==
    [i \in 1..Len(section.items) |-> prefix \o Hyphenated(section.items[i].k)]

\* The text with each thumb literal written as its variable reference where
\* the scrollbar section of the theme defines the literal's key.
WithThumbReferences(s, theme) ==
    [i \in 1..Len(s) |->
        IF s[i] = LitThumb /\ HasKey(theme.scrollbar, KeyThumb) THEN VarThumb
        ELSE IF s[i] = LitHover /\ HasKey(theme.scrollbar, KeyHover) THEN VarHover
        ELSE s[i]]

HasBackslash(theme) ==
    \E i \in 1..Len(theme.light.items) : Count(theme.light.items[i].v, BSL) > 0

ThemeDone == pc \in {"theme_returned", "theme_raised"}

\* C3 as stated: with a theme that is not empty and a template with no
\* style region, embed_theme returns the template unmodified.
C3_Unmodified ==
    (pc = "theme_returned" /\ ~Falsy(theme_config) /\ ~Search(template0))
        => template = template0

\* C3, amended: with a theme that is not empty and a template with no style
\* region, embed_theme either raises IndexError while generating (the theme
\* has neither light nor dark) or returns the template changed only in the
\* scrollbar thumb literals whose key the theme defines, now references.
C3_OnlyThumbLiterals ==
    (ThemeDone /\ ~Falsy(theme_config) /\ ~Search(template0)) =>
        \/ /\ pc = "theme_raised"
           /\ error = "IndexError"
           /\ ~theme_config.light.present /\ ~theme_config.dark.present
           /\ template = template0
        \/ /\ pc = "theme_returned"
           /\ template = WithThumbReferences(template0, theme_config)

C3_Witness ==
    /\ pc = "theme_returned"
    /\ ~Falsy(theme_config)
    /\ theme_config.light.present
    /\ ~Search(template0)
    /\ template # template0

\* The theme document  scrollbar: {thumb: "#112233", thumb_hover: "#445566"}.
ScrollbarOnlyTheme ==
    [none |-> FALSE, light |-> Absent, dark |-> Absent,
     scrollbar |-> Section(<<Thumb, Hover>>), decorative_light |-> Absent,
     decorative_dark |-> Absent, logo_gradients |-> Absent]

\* C4: given the theme document scrollbar: {thumb, thumb_hover}, embed_theme
\* returns a template in which every occurrence of the two thumb literals is
\* a reference to its variable and none remains as a literal.
C4_ThumbLiteralsReplaced ==
    (ThemeDone /\ theme_config = ScrollbarOnlyTheme) =>
        /\ pc = "theme_returned"
        /\ Count(template, LitThumb) = 0
        /\ Count(template, LitHover) = 0
        /\ Count(template, VarThumb) = Count(template0, LitThumb)
        /\ Count(template, VarHover) = Count(template0, LitHover)

OnlyLight(theme) ==
    /\ ~theme.none
    /\ theme.light.present
    /\ ~theme.dark.present
    /\ ~theme.scrollbar.present
    /\ ~theme.decorative_light.present
    /\ ~theme.decorative_dark.present
    /\ ~theme.logo_gradients.present

\* C5: for a theme document with only a light section (and a template that
\* has the style region), the template embed_theme returns has a root-scope
\* block with exactly one declaration per light key, hyphenated, and has a
\* dark-mode block only if the input template had one.
C5_RootBlockPerLightKey ==
    (ThemeDone /\ OnlyLight(theme_config) /\ Search(template0)) =>
        /\ pc = "theme_returned"
        /\ \E i \in 1..Len(template) :
              /\ template[i] = ":root"
              /\ BlockNames(template, i) = Named(<<>>, theme_config.light)
        /\ (Count(template, ".dark") > 0 => Count(template0, ".dark") > 0)

RootAdditions(theme) ==
    Named(<<"scrollbar", "-">>, theme.scrollbar)
        \o Named(<<"decorative", "-">>, theme.decorative_light)
        \o Named(<<"logo", "-">>, theme.logo_gradients)

\* C8: for every theme document, whatever sections it has,
\* generate_css_variables completes, and the declarations of scrollbar,
\* decorative_light and logo_gradients stand in the root-scope block, after
\* the light declarations, in that order.
C8_RootAdditionsInOrder ==
    (pc \in {"theme_generated", "theme_raised"} /\ error # "re.error") =>
        /\ pc = "theme_generated"
        /\ RootAdditions(theme_config) # <<>> =>
              \E i \in 1..Len(css_variables) :
                 /\ css_variables[i] = ":root"
                 /\ BlockNames(css_variables, i) =
                        Named(<<>>, theme_config.light) \o RootAdditions(theme_config)

DarkAdditions(theme) == Named(<<"decorative", "-">>, theme.decorative_dark)

InBlock(s, selector, name) ==
    \E i \in 1..Len(s) :
       /\ s[i] = selector
       /\ \E j \in 1..Len(BlockNames(s, i)) : BlockNames(s, i)[j] = name

\* C9: the decorative_dark declarations stand in the generated dark-mode
\* block if and only if the theme has a dark section, whether or not it has
\* a light section, and never in the root-scope block.
C9_DarkAdditionsIffDark ==
    (pc = "theme_generated" /\ theme_config.decorative_dark.present) =>
        \A j \in 1..Len(DarkAdditions(theme_config)) :
           /\ InBlock(css_variables, ".dark", DarkAdditions(theme_config)[j])
                 <=> theme_config.dark.present
           /\ ~InBlock(css_variables, ":root", DarkAdditions(theme_config)[j])

RECURSIVE AllReplaced(_, _, _, _)
AllReplaced(i, n, variant, css) ==
    IF i > n THEN <<>>
    ELSE Expand(css, Region(i)) \o Filler(variant) \o AllReplaced(i + 1, n, variant, css)

StrDoc(chars) == [t |-> "str", s |-> chars, n |-> 0, items |-> <<>>]
IntDoc(n) == [t |-> "int", s |-> <<>>, n |-> n, items |-> <<>>]
DateDoc == [t |-> "date", s |-> <<>>, n |-> 0, items |-> <<>>]
MapDoc(items) == [t |-> "map", s |-> <<>>, n |-> 0, items |-> items]
ListDoc(items) == [t |-> "list", s |-> <<>>, n |-> 0, items |-> items]
None == NoDoc

\* dict.get(key, default) on a mapping.
Get(doc, key, default) ==
    IF \E i \in 1..Len(doc.items) : doc.items[i].k = StrDoc(key)
    THEN doc.items[CHOOSE i \in 1..Len(doc.items) : doc.items[i].k = StrDoc(key)].v
    ELSE default

\* str(value) as an f-string writes it.
Format(doc) ==
    CASE doc.t = "str" -> doc.s
      [] doc.t = "int" -> <<ToString(doc.n)>>
      [] doc.t = "null" -> <<"None">>
      [] OTHER -> <<"<", doc.t, ">">>

(***************************************************************************)
(* embed_seo.                                                              *)
(***************************************************************************)
PageTitleToken == "{{ PAGE_TITLE }}"
MetaDescriptionToken == "{{ META_DESCRIPTION }}"
JsonLdToken == "{{ JSON_LD }}"
CvDataToken == "{{ CV_DATA }}"
MarkerLine == "        // CV Data Placeholder - Will be replaced by build script\n"

\* generate_json_ld(data)
generate_json_ld(data) == <<"<!-- JSON-LD Schema generated dynamically by JavaScript -->">>

\* description.replace('"', '&quot;') with the quotes left as they are.
EscapeQuotesNot(text) == text

\* description.replace('"', '&quot;')
EscapeQuotes(text) == Replace(text, <<QUOTE>>, <<"&quot;">>)

RECURSIVE Split(_)
\* str.split(): the words between runs of white space, no empty word.
Split(text) ==
    LET a == SkipWs(text, 1)
    IN  IF a > Len(text) THEN <<>>
        ELSE LET b == CHOOSE b \in a..Len(text) :
                         /\ \A k \in a..b : ~IsWs(text[k])
                         /\ b = Len(text) \/ IsWs(text[b + 1])
             IN  <<SubSeq(text, a, b)>> \o Split(SubSeq(text, b + 1, Len(text)))

\* Line 143: [err, text].
PageTitle(data) ==
    IF data.t # "map" THEN [err |-> "AttributeError", text |-> <<>>]
    ELSE LET basics == Get(data, <<"basics">>, MapDoc(<<>>))
         IN  IF basics.t # "map" THEN [err |-> "AttributeError", text |-> <<>>]
             ELSE [err |-> "none",
                   text |-> Format(Get(basics, <<"name">>, None)) \o <<SP, "-", SP>>
                               \o Format(Get(basics, <<"label">>, None))]

\* Lines 147-149: [err, text].
Description(data) ==
    LET basics == Get(data, <<"basics">>, MapDoc(<<>>))
        intro == Get(basics, <<"intro">>, MapDoc(<<>>))
    IN  IF intro.t # "map" THEN [err |-> "AttributeError", text |-> <<>>]
        ELSE LET text == Get(intro, <<"text">>, StrDoc(<<>>))
             IN  IF text.t # "str" THEN [err |-> "AttributeError", text |-> <<>>]
                 ELSE [err |-> "none",
                       text |-> Join(Split(EscapeQuotes(text.s)), <<SP>>)]

\* embed_seo(template, data): [err, text].
embed_seo(tpl, data) ==
    LET title == PageTitle(data)
    IN  IF title.err # "none" THEN title
        ELSE LET d == Description(data)
             IN  IF d.err # "none" THEN d
                 ELSE [err |-> "none",
                       text |-> Replace(Replace(Replace(tpl, <<PageTitleToken>>, title.text),
                                                <<MetaDescriptionToken>>, d.text),
                                        <<JsonLdToken>>, generate_json_ld(data))]


(***************************************************************************)
(* Inputs of the SEO embedder.                                             *)
(***************************************************************************)
TextChars == {"x", QUOTE, SP, NL}

\* The intro text of the specification's example:  x "y"\nz
ExampleText == <<"x", SP, QUOTE, "y", QUOTE, NL, "z">>

Texts == UNION {[1..n -> TextChars] : n \in 0..MaxTextLen} \cup {ExampleText}

Field(key, doc) == [k |-> StrDoc(<<key>>), v |-> doc]

Resume(name, label, text) ==
    MapDoc(<<Field("basics",
                   MapDoc(<<Field("name", name), Field("label", label),
                            Field("intro", MapDoc(<<Field("text", text)>>))>>))>>)

RegularResumes ==
    {Resume(StrDoc(name), StrDoc(<<"B">>), StrDoc(text)) :
        name \in {<<"A">>, <<"Ann", SP, "Lee">>}, text \in Texts}

IrregularResumes ==
    {MapDoc(<<>>),
     MapDoc(<<Field("basics", MapDoc(<<Field("label", StrDoc(<<"B">>))>>))>>),
     MapDoc(<<Field("basics", StrDoc(<<"A">>))>>),
     Resume(IntDoc(7), None, StrDoc(<<"x">>)),
     Resume(StrDoc(<<"A">>), StrDoc(<<"B">>), None)}

SeoResumes == RegularResumes \cup IrregularResumes

SeoTemplates ==
    {<<"<title>", PageTitleToken, "</title>", "<meta", MetaDescriptionToken, ">",
       JsonLdToken, PageTitleToken, MetaDescriptionToken, MarkerLine, CvDataToken>>,
     <<"<title>", PageTitleToken, "</title>", CvDataToken>>}

SeoInit ==
    /\ pc = "embed_seo"
    /\ cv_data \in SeoResumes
    /\ template0 \in SeoTemplates
    /\ template = template0
    /\ theme_config = NoneTheme
    /\ Idle

\* Lines 140-144.
embed_seo_title ==
    /\ pc = "embed_seo"
    /\ LET title == PageTitle(cv_data)
       IN  /\ error' = title.err
           /\ template' = IF title.err = "none"
                          THEN Replace(template, <<PageTitleToken>>, title.text)
                          ELSE template
           /\ pc' = IF title.err = "none" THEN "seo_title" ELSE "seo_raised"
    /\ UNCHANGED <<theme_config, template0, css_variables, cv_data, html_content,
                   cv_file, template_file, theme_file, output_file, writable,
                   exit_status, writes, called>>

\* Lines 147-150.
embed_seo_description ==
    /\ pc = "seo_title"
    /\ LET d == Description(cv_data)
       IN  /\ error' = d.err
           /\ template' = IF d.err = "none"
                          THEN Replace(template, <<MetaDescriptionToken>>, d.text)
                          ELSE template
           /\ pc' = IF d.err = "none" THEN "seo_description" ELSE "seo_raised"
    /\ UNCHANGED <<theme_config, template0, css_variables, cv_data, html_content,
                   cv_file, template_file, theme_file, output_file, writable,
                   exit_status, writes, called>>

\* Lines 153-156.
embed_seo_json_ld ==
    /\ pc = "seo_description"
    /\ template' = Replace(template, <<JsonLdToken>>, generate_json_ld(cv_data))
    /\ pc' = "seo_returned"
    /\ UNCHANGED <<error, theme_config, template0, css_variables, cv_data,
                   html_content, cv_file, template_file, theme_file, output_file,
                   writable, exit_status, writes, called>>

SeoNext ==
    \/ embed_seo_title
    \/ embed_seo_description
    \/ embed_seo_json_ld

SeoSpec == SeoInit /\ [][SeoNext]_vars

(***************************************************************************)
(* What the SEO claim says of the result.                                  *)
(***************************************************************************)
HasBasics(doc) ==
    /\ doc.t = "map"
    /\ Get(doc, <<"basics">>, None).t = "map"
    /\ Get(Get(doc, <<"basics">>, None), <<"name">>, None).t = "str"
    /\ Get(Get(doc, <<"basics">>, None), <<"label">>, None).t = "str"
    /\ Get(Get(doc, <<"basics">>, None), <<"intro">>, None).t = "map"
    /\ Get(Get(Get(doc, <<"basics">>, None), <<"intro">>, None), <<"text">>, None).t = "str"

NameOf(doc) == Get(Get(doc, <<"basics">>, None), <<"name">>, None).s
LabelOf(doc) == Get(Get(doc, <<"basics">>, None), <<"label">>, None).s
IntroTextOf(doc) ==
    Get(Get(Get(doc, <<"basics">>, None), <<"intro">>, None), <<"text">>, None).s

\* A character of the description: a quote as its entity, white space as a
\* space.
Escaped(c) == IF c = QUOTE THEN "&quot;" ELSE IF IsWs(c) THEN SP ELSE c

RECURSIVE Collapsed(_, _)
\* The text from position i with every run of white space as one space.
Collapsed(text, i) ==
    IF i > Len(text) THEN <<>>
    ELSE IF IsWs(text[i]) /\ i > 1 /\ IsWs(text[i - 1]) THEN Collapsed(text, i + 1)
    ELSE <<Escaped(text[i])>> \o Collapsed(text, i + 1)

RECURSIVE Trimmed(_, _)
\* The same, with the white space at the two ends of the text left out.
Trimmed(text, i) ==
    IF i > Len(text) THEN <<>>
    ELSE IF IsWs(text[i]) /\ ( \/ \A k \in 1..i : IsWs(text[k])
                               \/ \A k \in i..Len(text) : IsWs(text[k])
                               \/ IsWs(text[i - 1]) )
         THEN Trimmed(text, i + 1)
    ELSE <<Escaped(text[i])>> \o Trimmed(text, i + 1)

\* The template with each placeholder token written as its text.
Filled(tpl, title, description) ==
    Flat([i \in 1..Len(tpl) |->
            CASE tpl[i] = PageTitleToken -> title
              [] tpl[i] = MetaDescriptionToken -> description
              [] tpl[i] = JsonLdToken ->
                   <<"<!-- JSON-LD Schema generated dynamically by JavaScript -->">>
              [] OTHER -> <<tpl[i]>>])

IndentWidth == 2

Spaces(n) == [i \in 1..n |-> SP]

RECURSIVE Serializable(_)
\* Whether json.dumps accepts the document: a date is no JSON value (TypeError).
Serializable(doc) ==
    CASE doc.t = "date" -> FALSE
      [] doc.t = "map" ->
           \A i \in 1..Len(doc.items) :
              /\ doc.items[i].k.t \in {"str", "int", "null"}
              /\ Serializable(doc.items[i].v)
      [] doc.t = "list" -> \A i \in 1..Len(doc.items) : Serializable(doc.items[i])
      [] OTHER -> TRUE

\* A character inside a JSON string, written as it is.
EscapeCharNot(c) == <<c>>

\* A character inside a JSON string: quote, backslash and newline are
\* escaped, any other character (non-ASCII too) is written as it is.
EscapeChar(c) ==
    CASE c = QUOTE -> <<BSL, QUOTE>>
      [] c = BSL -> <<BSL, BSL>>
      [] c = NL -> <<BSL, "n">>
      [] OTHER -> <<c>>

EscapeAll(chars) == Flat([i \in 1..Len(chars) |-> EscapeChar(chars[i])])

DumpsString(chars) == <<QUOTE>> \o EscapeAll(chars) \o <<QUOTE>>

\* A mapping key as JSON writes it: always a string.
KeyText(k) ==
    CASE k.t = "str" -> k.s
      [] k.t = "int" -> <<ToString(k.n)>>
      [] OTHER -> <<"null">>

RECURSIVE Dumps(_, _)
Dumps(doc, level) ==
    CASE doc.t = "str" -> DumpsString(doc.s)
      [] doc.t = "int" -> <<ToString(doc.n)>>
      [] doc.t = "null" -> <<"null">>
      [] doc.t = "map" ->
           IF doc.items = <<>> THEN <<"{", "}">>
           ELSE <<"{", NL>>
                \o Join([i \in 1..Len(doc.items) |->
                            Spaces(IndentWidth * (level + 1))
                            \o DumpsString(KeyText(doc.items[i].k)) \o <<":", SP>>
                            \o Dumps(doc.items[i].v, level + 1)],
                        <<",", NL>>)
                \o <<NL>> \o Spaces(IndentWidth * level) \o <<"}">>
      [] OTHER ->
           IF doc.items = <<>> THEN <<"[", "]">>
           ELSE <<"[", NL>>
                \o Join([i \in 1..Len(doc.items) |->
                            Spaces(IndentWidth * (level + 1))
                            \o Dumps(doc.items[i], level + 1)],
                        <<",", NL>>)
                \o <<NL>> \o Spaces(IndentWidth * level) \o <<"]">>

\* embed_data(template, data): [err, text].
embed_data(tpl, data) ==
    IF ~Serializable(data) THEN [err |-> "TypeError", text |-> <<>>]
    ELSE [err |-> "none",
          text |-> Replace(Replace(tpl, <<MarkerLine>>, <<>>),
                           <<CvDataToken>>, Dumps(data, 0))]

(***************************************************************************)
(* Reading JSON back (what the page's script does with the embedded data): *)
(* a parser of the JSON grammar from a position of a text.                 *)
(***************************************************************************)
IntValues == {7, 2020}

NoParse == [ok |-> FALSE, v |-> None, next |-> 0]
Parsed(v, next) == [ok |-> TRUE, v |-> v, next |-> next]

RECURSIVE ParseChars(_, _, _)
\* The characters of a string from position i (after the opening quote).
ParseChars(s, i, acc) ==
    IF i > Len(s) \/ s[i] = NL THEN NoParse
    ELSE IF s[i] = QUOTE THEN Parsed(StrDoc(acc), i + 1)
    ELSE IF s[i] # BSL THEN ParseChars(s, i + 1, Append(acc, s[i]))
    ELSE IF i + 1 > Len(s) THEN NoParse
    ELSE IF s[i + 1] = QUOTE THEN ParseChars(s, i + 2, Append(acc, QUOTE))
    ELSE IF s[i + 1] = BSL THEN ParseChars(s, i + 2, Append(acc, BSL))
    ELSE IF s[i + 1] = "n" THEN ParseChars(s, i + 2, Append(acc, NL))
    ELSE NoParse

RECURSIVE ParseValue(_, _)
RECURSIVE ParseMembers(_, _, _)
RECURSIVE ParseElements(_, _, _)

\* After the members read so far: "}" ends the object, "," brings another.
ParseMembers(s, i, acc) ==
    LET a == SkipWs(s, i)
    IN  IF a > Len(s) \/ s[a] # QUOTE THEN NoParse
        ELSE LET key == ParseChars(s, a + 1, <<>>)
             IN  IF ~key.ok THEN NoParse
                 ELSE LET c == SkipWs(s, key.next)
                      IN  IF c > Len(s) \/ s[c] # ":" THEN NoParse
                          ELSE LET val == ParseValue(s, c + 1)
                               IN  IF ~val.ok THEN NoParse
                                   ELSE LET e == SkipWs(s, val.next)
                                            all == Append(acc, [k |-> key.v, v |-> val.v])
                                        IN  IF e > Len(s) THEN NoParse
                                            ELSE IF s[e] = "}" THEN Parsed(MapDoc(all), e + 1)
                                            ELSE IF s[e] = "," THEN ParseMembers(s, e + 1, all)
                                            ELSE NoParse

ParseElements(s, i, acc) ==
    LET val == ParseValue(s, i)
    IN  IF ~val.ok THEN NoParse
        ELSE LET e == SkipWs(s, val.next)
                 all == Append(acc, val.v)
             IN  IF e > Len(s) THEN NoParse
                 ELSE IF s[e] = "]" THEN Parsed(ListDoc(all), e + 1)
                 ELSE IF s[e] = "," THEN ParseElements(s, e + 1, all)
                 ELSE NoParse

ParseValue(s, i) ==
    LET a == SkipWs(s, i)
    IN  IF a > Len(s) THEN NoParse
        ELSE IF s[a] = QUOTE THEN ParseChars(s, a + 1, <<>>)
        ELSE IF s[a] = "null" THEN Parsed(None, a + 1)
        ELSE IF \E n \in IntValues : ToString(n) = s[a]
             THEN Parsed(IntDoc(CHOOSE n \in IntValues : ToString(n) = s[a]), a + 1)
        ELSE IF s[a] = "{"
             THEN LET b == SkipWs(s, a + 1)
                  IN  IF b <= Len(s) /\ s[b] = "}" THEN Parsed(MapDoc(<<>>), b + 1)
                      ELSE ParseMembers(s, a + 1, <<>>)
        ELSE IF s[a] = "["
             THEN LET b == SkipWs(s, a + 1)
                  IN  IF b <= Len(s) /\ s[b] = "]" THEN Parsed(ListDoc(<<>>), b + 1)
                      ELSE ParseElements(s, a + 1, <<>>)
        ELSE NoParse


(***************************************************************************)
(* The files and the main pipeline.                                        *)
(***************************************************************************)
\* load_yaml(filepath): the parsed document, or the process exits (a file
\* that is not there, a content that is no YAML).
load_yaml_lenient(file) == [exit |-> file.state = "missing", value |-> file.doc]

load_yaml(file) == [exit |-> file.state # "ok", value |-> file.doc]

\* load_template(filepath)
load_template(file) == [exit |-> file.state # "ok", value |-> file.text]

\* theme_file.exists() taken to hold of any path.
ExistsAlways(file) == TRUE

\* theme_file.exists()
Exists(file) == file.state # "missing"

MainResumes ==
    {Resume(StrDoc(<<"A">>), StrDoc(<<"B">>), StrDoc(ExampleText)),
     MapDoc(<<Field("basics",
                    MapDoc(<<Field("name", StrDoc(<<"Zo", "ë">>)),
                             Field("label", StrDoc(<<"C", BSL, "D">>)),
                             Field("intro", MapDoc(<<Field("text", StrDoc(<<"é", NL>>))>>))>>)),
              Field("years", IntDoc(2020)),
              Field("skills",
                    ListDoc(<<StrDoc(<<"tla">>), IntDoc(7), None, MapDoc(<<>>),
                              ListDoc(<<>>)>>))>>),
     MapDoc(<<Field("basics", MapDoc(<<Field("name", StrDoc(<<"A">>))>>)),
              Field("jobs", MapDoc(<<[k |-> IntDoc(2020), v |-> StrDoc(<<"x">>)]>>))>>),
     MapDoc(<<Field("basics", MapDoc(<<Field("name", StrDoc(<<"A">>))>>)),
              Field("born", DateDoc)>>),
     MapDoc(<<>>)}

MainTemplates ==
    {<<"<title>", PageTitleToken, "</title>", "<meta", MetaDescriptionToken, ">",
       JsonLdToken, "<style>">> \o Region(1)
        \o <<LitThumb, LitHover, "</style>", "<script>", MarkerLine, "const", SP, "cv",
             "=", CvDataToken, ";", "</script>">>,
     <<PageTitleToken, CvDataToken, "x", CvDataToken>>,
     <<"<p>">>}

FullTheme ==
    [none |-> FALSE,
     light |-> Section(LightItems(2, <<"#fff">>)),
     dark |-> Section(DarkItems(1)),
     scrollbar |-> Section(<<Thumb, Hover>>),
     decorative_light |-> Section(<<Entry(<<"blob", "_", "one">>, <<"#abc">>)>>),
     decorative_dark |-> Section(<<Entry(<<"glow", "_", "one">>, <<"#def">>)>>),
     logo_gradients |-> Section(<<Entry(<<"start">>, <<"#123">>)>>)]

MainThemes ==
    {NoneTheme,
     FullTheme,
     ScrollbarOnlyTheme,
     [NoneTheme EXCEPT !.none = FALSE, !.light = Section(LightItems(1, <<BSL, "x">>))],
     [NoneTheme EXCEPT !.none = FALSE, !.light = Section(LightItems(1, <<"#fff">>)),
                       !.dark = Section(DarkItems(1))]}

Init ==
    /\ pc = "main"
    /\ error = "none"
    /\ cv_file \in {[state |-> st, doc |-> None] : st \in {"missing", "malformed"}}
                     \cup {[state |-> "ok", doc |-> d] : d \in MainResumes}
    /\ template_file \in {[state |-> "missing", text |-> <<>>]}
                     \cup {[state |-> "ok", text |-> t] : t \in MainTemplates}
    /\ theme_file \in {[state |-> st, doc |-> NoneTheme] : st \in {"missing", "malformed"}}
                     \cup {[state |-> "ok", doc |-> th] : th \in MainThemes}
    /\ output_file \in {[exists |-> FALSE, text |-> <<>>],
                        [exists |-> TRUE, text |-> <<"old">>]}
    /\ writable \in {"yes", "denied", "fails"}
    /\ cv_data = None
    /\ theme_config = NoneTheme
    /\ template = <<>>
    /\ template0 = <<>>
    /\ css_variables = <<>>
    /\ html_content = <<>>
    /\ exit_status = -1
    /\ writes = 0
    /\ called = {}

\* Line 237: cv_data = load_yaml(yaml_file).
main_load_cv ==
    /\ pc = "main"
    /\ called' = called \cup {"load_yaml(cv)"}
    /\ LET r == load_yaml(cv_file)
       IN  IF r.exit
           THEN /\ pc' = "exited" /\ exit_status' = 1 /\ UNCHANGED cv_data
           ELSE /\ pc' = "load_template" /\ cv_data' = r.value /\ UNCHANGED exit_status
    /\ UNCHANGED <<error, theme_config, template, template0, css_variables,
                   html_content, cv_file, template_file, theme_file, output_file,
                   writable, writes>>

\* Line 240: template = load_template(template_file).
main_load_template ==
    /\ pc = "load_template"
    /\ called' = called \cup {"load_template"}
    /\ LET r == load_template(template_file)
       IN  IF r.exit
           THEN /\ pc' = "exited" /\ exit_status' = 1 /\ UNCHANGED <<template, template0>>
           ELSE /\ pc' = "theme" /\ template' = r.value /\ template0' = r.value
                /\ UNCHANGED exit_status
    /\ UNCHANGED <<error, theme_config, css_variables, cv_data, html_content,
                   cv_file, template_file, theme_file, output_file, writable, writes>>

\* Lines 244, 249-250: no theme file, the template's defaults are used.
main_theme_missing ==
    /\ pc = "theme"
    /\ ~Exists(theme_file)
    /\ pc' = "seo"
    /\ UNCHANGED <<error, theme_config, template, template0, css_variables,
                   cv_data, html_content, cv_file, template_file, theme_file,
                   output_file, writable, exit_status, writes, called>>

\* Lines 244-246: theme_config = load_yaml(theme_file).
main_load_theme ==
    /\ pc = "theme"
    /\ Exists(theme_file)
    /\ called' = called \cup {"load_yaml(theme)"}
    /\ LET r == load_yaml(theme_file)
       IN  IF r.exit
           THEN /\ pc' = "exited" /\ exit_status' = 1 /\ UNCHANGED theme_config
           ELSE /\ pc' = "apply_theme" /\ theme_config' = r.value /\ UNCHANGED exit_status
    /\ UNCHANGED <<error, template, template0, css_variables, cv_data, html_content,
                   cv_file, template_file, theme_file, output_file, writable, writes>>

\* Line 248: template = embed_theme(template, theme_config); an exception
\* that nothing catches ends the process with status 1.
main_embed_theme ==
    /\ pc = "apply_theme"
    /\ called' = called \cup {"embed_theme"}
    /\ LET r == embed_theme(template, theme_config)
       IN  /\ error' = r.err
           /\ IF r.err # "none"
              THEN /\ pc' = "crashed" /\ exit_status' = 1 /\ UNCHANGED template
              ELSE /\ pc' = "seo" /\ template' = r.text /\ UNCHANGED exit_status
    /\ UNCHANGED <<theme_config, template0, css_variables, cv_data, html_content,
                   cv_file, template_file, theme_file, output_file, writable, writes>>

\* Line 253: template = embed_seo(template, cv_data).
main_embed_seo ==
    /\ pc = "seo"
    /\ called' = called \cup {"embed_seo"}
    /\ LET r == embed_seo(template, cv_data)
       IN  /\ error' = r.err
           /\ IF r.err # "none"
              THEN /\ pc' = "crashed" /\ exit_status' = 1 /\ UNCHANGED template
              ELSE /\ pc' = "data" /\ template' = r.text /\ UNCHANGED exit_status
    /\ UNCHANGED <<theme_config, template0, css_variables, cv_data, html_content,
                   cv_file, template_file, theme_file, output_file, writable, writes>>

\* Line 256: html_content = embed_data(template, cv_data).
main_embed_data ==
    /\ pc = "data"
    /\ called' = called \cup {"embed_data"}
    /\ LET r == embed_data(template, cv_data)
       IN  /\ error' = r.err
           /\ IF r.err # "none"
              THEN /\ pc' = "crashed" /\ exit_status' = 1 /\ UNCHANGED html_content
              ELSE /\ pc' = "save" /\ html_content' = r.text /\ UNCHANGED exit_status
    /\ UNCHANGED <<theme_config, template, template0, css_variables, cv_data,
                   cv_file, template_file, theme_file, output_file, writable, writes>>

\* Lines 259-261, 169-177: save_output(output_file, html_content).  open()
\* may fail (the file is left as it was), write() may fail after open()
\* has emptied the file; either ends the process with status 1.
main_save_output ==
    /\ pc = "save"
    /\ called' = called \cup {"save_output"}
    /\ CASE writable = "yes" ->
              /\ output_file' = [exists |-> TRUE, text |-> html_content]
              /\ writes' = writes + 1
              /\ pc' = "done"
              /\ exit_status' = 0
         [] writable = "fails" ->
              /\ output_file' = [exists |-> TRUE, text |-> <<>>]
              /\ writes' = writes + 1
              /\ pc' = "exited"
              /\ exit_status' = 1
         [] OTHER ->
              /\ pc' = "exited"
              /\ exit_status' = 1
              /\ UNCHANGED <<output_file, writes>>
    /\ UNCHANGED <<error, theme_config, template, template0, css_variables,
                   cv_data, html_content, cv_file, template_file, theme_file, writable>>

Next ==
    \/ main_load_cv
    \/ main_load_template
    \/ main_theme_missing
    \/ main_load_theme
    \/ main_embed_theme
    \/ main_embed_seo
    \/ main_embed_data
    \/ main_save_output

Spec == Init /\ [][Next]_vars

(***************************************************************************)
(* What the claims say of a run of main.                                   *)
(***************************************************************************)
Terminated == pc \in {"done", "exited", "crashed"}

\* A load step fails: the resume file is missing or malformed, the template
\* file is missing, or the theme file is there and malformed.
LoadFails ==
    \/ cv_file.state # "ok"
    \/ template_file.state # "ok"
    \/ theme_file.state = "malformed"

C1_State ==
    /\ writes <= 1
    /\ writes = 1 =>
          /\ pc \in {"done", "exited"}
          /\ {"embed_seo", "embed_data"} \subseteq called
          /\ theme_file.state # "missing" => "embed_theme" \in called
    /\ pc = "done" => output_file = [exists |-> TRUE, text |-> html_content]
    /\ LoadFails =>
          /\ writes = 0
          /\ pc \in {"main", "load_template", "theme", "exited"}
          /\ "save_output" \notin called
          /\ Terminated => exit_status = 1

C1_Step ==
    /\ output_file' # output_file => pc = "save" /\ pc' \in {"done", "exited"}
    /\ LoadFails => output_file' = output_file

\* C1: in every run of main the output file is written at most once and
\* only as the last step, after the theme, SEO and data substitutions; when
\* a load step fails the process ends with a non-zero status and the
\* output file is neither created nor modified.
C1_WrittenOnceAtTheEnd == []C1_State /\ [][C1_Step]_vars

C1_Witness ==
    /\ pc = "exited"
    /\ theme_file.state = "malformed"
    /\ "load_yaml(theme)" \in called
    /\ output_file = [exists |-> TRUE, text |-> <<"old">>]

\* The outcome of the pipeline with the theme embedder left out:
\* template -> embed_seo -> embed_data.
WithoutTheme(tpl, data) ==
    LET seo == embed_seo(tpl, data)
    IN  IF seo.err # "none" THEN seo ELSE embed_data(seo.text, data)

\* C2: with no theme file, main calls neither the theme loader nor
\* embed_theme, the missing file is no error, and the run ends as the
\* pipeline without the theme embedder ends: the same output, byte for
\* byte, for every resume document and template.
C2_MissingThemeIsSkipped ==
    theme_file.state = "missing" =>
        /\ "load_yaml(theme)" \notin called
        /\ "embed_theme" \notin called
        /\ (Terminated /\ cv_file.state = "ok" /\ template_file.state = "ok") =>
              LET r == WithoutTheme(template_file.text, cv_file.doc)
              IN  IF r.err # "none" THEN pc = "crashed" /\ error = r.err
                  ELSE IF writable = "yes"
                       THEN /\ pc = "done"
                            /\ exit_status = 0
                            /\ output_file = [exists |-> TRUE, text |-> r.text]
                       ELSE pc = "exited" /\ "save_output" \in called

C2_Witness ==
    /\ pc = "done"
    /\ theme_file.state = "missing"
    /\ Search(output_file.text)
    /\ Count(output_file.text, LitThumb) > 0

\* The position of the data placeholder in the template that embed_data is
\* given, the marker line removed.
DataPosition == NextToken(Replace(template, <<MarkerLine>>, <<>>), 1, CvDataToken)

RECURSIVE StringKeys(_)
StringKeys(doc) ==
    CASE doc.t = "map" ->
           \A i \in 1..Len(doc.items) :
              doc.items[i].k.t = "str" /\ StringKeys(doc.items[i].v)
      [] doc.t = "list" -> \A i \in 1..Len(doc.items) : StringKeys(doc.items[i])
      [] OTHER -> TRUE

\* C7 as stated: for every resume document, the text at the data
\* placeholder's position of the output parses back to a document equal to
\* the input.
C7_RoundTrip ==
    (pc = "done" /\ Count(template, CvDataToken) > 0) =>
        LET back == ParseValue(output_file.text, DataPosition)
        IN  back.ok /\ back.v = cv_data

\* C7, amended: for every resume document that json.dumps serialises and
\* whose mapping keys are all strings, the text at the data placeholder's
\* position of the output parses back to a document equal to the input.
C7_RoundTripStringKeys ==
    (pc = "done" /\ Count(template, CvDataToken) > 0 /\ StringKeys(cv_data)) =>
        LET back == ParseValue(output_file.text, DataPosition)
        IN  back.ok /\ back.v = cv_data /\ back.v = cv_file.doc

C7_Witness ==
    /\ pc = "done"
    /\ "embed_theme" \in called
    /\ Count(template, CvDataToken) > 0
    /\ Len(cv_data.items) = 3
    /\ Count(output_file.text, "ë") > 0
    /\ template # template0

=============================================================================
